---- MODULE Spec2Model ----
(***************************************************************************)
(* Position lifecycle engine of the trading bot (src/trading/              *)
(* position_manager.py) with the exchange backends it drives               *)
(* (src/dex/jupiter.py, src/dex/oneinch.py), the chain detector            *)
(* (src/chain/detector.py) and the Signal value (src/models.py).           *)
(*                                                                         *)
(* Prices and amounts are integers (ticks / whole units); a quotient the   *)
(* code computes in floating point is kept exact as a reduced fraction     *)
(* [num, den].  An Optional value is <<>> (None / SQL NULL) or <<v>>.      *)
(* A coroutine runs atomically from one suspension point to the next; a    *)
(* statement sent to the single aiosqlite connection takes effect where it *)
(* is issued, because the connection executes statements in issue order.   *)
(***************************************************************************)
EXTENDS Integers, Sequences, FiniteSets, TLC

VARIABLES
    config,          \* TradingConfig: max_positions, dry_run,
                     \* slippage_tolerance
    dex_instances,   \* PositionManager.dex_instances: chain -> backend record
    positions,       \* the positions table; row id = index (AUTOINCREMENT)
    ps,              \* per caller: the process_signal coroutine it runs
    is_monitoring,   \* PositionManager.is_monitoring
    mon_pc,          \* where the monitor task stands: "none" (not created),
                     \* "top", "check", "cancelled"
    open_positions,  \* the list _monitor_loop is iterating over
    hooks,           \* which of on_position_opened / on_position_closed are set
    db_open,         \* the aiosqlite connection is open
    detector_open,   \* the chain detector's HTTP session is not closed
    cur,             \* the _check_position call the monitor task is
                     \* suspended in: None, or its replies and the number
                     \* of its awaits that have completed
    last             \* observation of the step just taken

vars == <<config, dex_instances, positions, ps, is_monitoring, mon_pc,
          open_positions, hooks, db_open, detector_open, cur, last>>

----
\* Bounds of the model.
MaxRows == 2
NumCallers == 2
MaxPrice == 5
MaxAmount == 1

----
\* Optional values and exact fractions.
None == <<>>

Some(v) == <<v>>

RECURSIVE GCD(_, _)
GCD(a, b) == IF b = 0 THEN a ELSE GCD(b, a % b)

Abs(x) == IF x < 0 THEN -x ELSE x

\* n / d for d > 0, reduced so that equal quotients are equal records.
Frac(n, d) ==
    LET g == GCD(Abs(n), d) IN [num |-> n \div g, den |-> d \div g]

Zero == [num |-> 0, den |-> 1]

----
\* src/models.py
TradeDirection == {"long", "short"}

Chain == {"solana", "ethereum", "ethereum_sepolia", "ethereum_goerli",
          "bsc", "base", "arbitrum"}

PositionStatus == {"pending", "active", "closed_tp", "closed_sl",
                   "closed_manual", "failed"}

\* Mutant of ValidSignal: the LONG ordering is not checked.
ValidSignal_unordered(s) ==
    /\ s.entry_price > 0
    /\ s.take_profit > 0
    /\ s.stop_loss > 0

\* Signal.__post_init__: TRUE when construction succeeds.
ValidSignal(s) ==
    /\ s.entry_price > 0
    /\ s.take_profit > 0
    /\ s.stop_loss > 0
    /\ (s.direction = "long" =>
            (s.take_profit > s.entry_price /\ s.entry_price > s.stop_loss))

\* datetime.now().isoformat(): some non-null text.
Timestamp == "now"

\* TradeResult(success=True, ...) and TradeResult(success=False, error=...)
TradeResult(success, tx_hash, amount_in, amount_out, price, error) ==
    [success |-> success, tx_hash |-> tx_hash, amount_in |-> amount_in,
     amount_out |-> amount_out, price |-> price, error |-> error]

\* Position.calculate_pnl: (pnl_percent, pnl_absolute) for an exit price.
calculate_pnl(position, exit_price) ==
    LET e == position.actual_entry_price
    IN  IF e.num <= 0 THEN <<Zero, Zero>>
        ELSE <<Frac((exit_price * e.den - e.num) * 100, e.num),
               Frac((exit_price * e.den - e.num)
                        * position.entry_amount_token, e.den)>>

----
\* src/config.py
CapitalPercentNum == 5

CapitalPercentDen == 100

\* slippage_tolerance: float = 0.01, in percent
DefaultSlippage == 1

\* QUOTE_TOKENS.get(chain, {}).get("USDT"): every Chain has a USDT entry.
QuoteTokenChains == Chain

quote_token_for(chain) ==
    IF chain \in QuoteTokenChains THEN Some(<<"USDT", chain>>) ELSE None

----
\* src/chain/detector.py
\* An address is known by what the two format tests look at.
AddrSolana == [prefix0x |-> FALSE, len |-> 44, alphabet |-> "base58"]

AddrEvm == [prefix0x |-> TRUE, len |-> 42, alphabet |-> "hex"]

AddrBad == [prefix0x |-> FALSE, len |-> 10, alphabet |-> "other"]

Addresses == {AddrSolana, AddrEvm, AddrBad}

detect_address_format(address) ==
    IF address.prefix0x /\ address.len = 42 /\ address.alphabet = "hex"
    THEN Some("evm")
    ELSE IF address.len >= 32 /\ address.len <= 44
            /\ address.alphabet = "base58"
    THEN Some("solana")
    ELSE None

\* What _detect_evm_chain (DexScreener, then GeckoTerminal) can answer.
EvmDetections == {None, Some("ethereum")}

----
\* src/dex/jupiter.py, src/dex/oneinch.py
EvmChains == {"ethereum", "ethereum_sepolia", "ethereum_goerli", "bsc",
              "base", "arbitrum"}

\* A configured private key is absent, present but undecodable, or usable.
KeyStates == {"none", "bad", "good"}

\* JupiterDEX.__init__ / OneInchDEX.__init__: the wallet is set only when the
\* key decodes; closed becomes TRUE when close() of the backend has run.
NewDex(kind, chain, private_key) ==
    [kind |-> kind, chain |-> chain, wallet |-> (private_key = "good"),
     closed |-> FALSE]

\* PositionManager._init_dex_instances
init_dex_instances(wallet) ==
    LET sol == IF wallet.solana_private_key # "none" THEN {"solana"} ELSE {}
        evm == IF wallet.evm_private_key # "none" THEN EvmChains ELSE {}
    IN  [c \in sol \cup evm |->
            IF c = "solana"
            THEN NewDex("jupiter", c, wallet.solana_private_key)
            ELSE NewDex("oneinch", c, wallet.evm_private_key)]

\* Mutant of get_token_price: a failed request answers a default price.
get_token_price_default(feed) ==
    IF feed = None THEN Some(1)
    ELSE IF feed[1] = 0 THEN Some(1) ELSE feed

\* get_token_price: feed is None when the request fails, else the price in
\* the payload; a price of 0 is reported as None.
get_token_price(feed) ==
    IF feed = None THEN None
    ELSE IF feed[1] = 0 THEN None ELSE feed

\* Mutant of get_token_balance: a failed lookup answers a default balance.
get_token_balance_default(dex, rpc) ==
    IF ~dex.wallet THEN 0
    ELSE IF rpc = None THEN CapitalPercentDen ELSE rpc[1]

\* get_token_balance: 0 without a wallet or when the lookup fails (the RPC
\* call or the decoding of its response raises inside the try).
get_token_balance(dex, rpc) ==
    IF ~dex.wallet THEN 0
    ELSE IF rpc = None THEN 0 ELSE rpc[1]

\* get_native_balance: 0 without a wallet or when the lookup fails.
get_native_balance(dex, rpc) ==
    IF ~dex.wallet THEN 0
    ELSE IF rpc = None THEN 0 ELSE rpc[1]

\* get_quote: resp is None when the request fails, else the output amount
\* the response converts to.
get_quote(input_token, output_token, amount, resp) ==
    IF resp = None THEN None
    ELSE Some([input_token |-> input_token,
               output_token |-> output_token,
               input_amount |-> amount,
               output_amount |-> resp[1],
               price |-> IF amount > 0 THEN Frac(resp[1], amount) ELSE Zero])

\* What becomes of the transaction a swap builds: the node refuses it (the
\* send raises), or it is broadcast and then confirmed as succeeded,
\* confirmed as failed, or never included in a block.
TxOutcomes == {"rejected", "confirmed", "reverted", "dropped"}

\* The try block of execute_swap: TRUE when it reaches the
\* TradeResult(success=True, ...).  Jupiter returns it as soon as
\* send_transaction has answered; 1inch waits for the receipt (the wait
\* raises when none comes within 120 s) and looks at its status.
swap_sent(dex, tx) ==
    IF dex.kind = "jupiter" THEN tx # "rejected" ELSE tx = "confirmed"

\* execute_swap: sent is TRUE when the try block reaches its success return.
execute_swap(dex, quote, dry_run, sent) ==
    IF ~dex.wallet
    THEN TradeResult(FALSE, None, 0, 0, Zero, Some("Wallet not initialized"))
    ELSE IF dry_run
    THEN TradeResult(TRUE, Some("DRY_RUN_NO_TX"), quote.input_amount,
                     quote.output_amount, quote.price, None)
    ELSE IF sent
    THEN TradeResult(TRUE, Some("tx"), quote.input_amount,
                     quote.output_amount, quote.price, None)
    ELSE TradeResult(FALSE, None, 0, 0, Zero, Some("swap failed"))

----
\* Inputs from the environment.
PriceFeeds == {None} \cup {Some(p) : p \in 0..MaxPrice}

\* Balances whose capital_percent share is a whole amount.
BalanceReplies ==
    {None} \cup {Some(k * (CapitalPercentDen \div CapitalPercentNum)) :
                    k \in 0..MaxAmount}

QuoteReplies == {None} \cup {Some(a) : a \in 0..MaxAmount}

\* Signals a caller can construct: Signal(...) raises for the others.  One
\* entry level with a level on each side of it: take-profit above and
\* stop-loss below for a LONG, the reverse for a SHORT.
SignalInputs ==
    {s \in [direction : TradeDirection,
            contract_address : Addresses,
            entry_price : {3},
            take_profit : {2, 4},
            stop_loss : {2, 4}] :
        /\ s.take_profit # s.stop_loss
        /\ (s.direction = "short" => s.take_profit < s.stop_loss)}

Signals == {s \in SignalInputs : ValidSignal(s)}

Callers == 1..NumCallers

----
\* src/trading/position_manager.py: the Store
OpenStatuses == {"pending", "active"}

\* Mutant of Position: take-profit and stop-loss copied crosswise.
Position_swapped(id, signal, chain) ==
    [id |-> id,
     chain |-> chain,
     token_address |-> signal.contract_address,
     quote_token |-> "USDT",
     target_entry_price |-> signal.entry_price,
     take_profit_price |-> signal.stop_loss,
     stop_loss_price |-> signal.take_profit,
     status |-> "pending"]

\* Position(signal=..., chain=..., status=PositionStatus.PENDING)
Position(id, signal, chain) ==
    [id |-> id,
     chain |-> chain,
     token_address |-> signal.contract_address,
     quote_token |-> "USDT",
     target_entry_price |-> signal.entry_price,
     take_profit_price |-> signal.take_profit,
     stop_loss_price |-> signal.stop_loss,
     status |-> "pending"]

\* _save_position: the INSERT; the columns it does not name take the
\* defaults of the CREATE TABLE in _init_database.
save_position(db, position, t) ==
    Append(db,
        [chain |-> position.chain,
         token_address |-> position.token_address,
         quote_token |-> position.quote_token,
         entry_amount_quote |-> 0,
         entry_amount_token |-> 0,
         actual_entry_price |-> Zero,
         target_entry_price |-> position.target_entry_price,
         take_profit_price |-> position.take_profit_price,
         stop_loss_price |-> position.stop_loss_price,
         status |-> position.status,
         created_at |-> Some(t),
         opened_at |-> None,
         closed_at |-> None,
         entry_tx_hash |-> None,
         exit_tx_hash |-> None,
         exit_price |-> None,
         pnl_percent |-> None,
         pnl_absolute |-> None])

\* _count_active_positions
count_active_positions(db) ==
    Cardinality({i \in 1..Len(db) : db[i].status \in {"pending", "active"}})

\* Mutant of OpenFilter: only pending rows are selected.
OpenFilter_pending(db, i) == db[i].status = "pending"

\* The rows _get_open_positions selects.
OpenFilter(db, i) == db[i].status \in {"pending", "active"}

\* _get_open_positions: one dict per selected row, with the selected columns.
get_open_positions(db) ==
    LET ids == SelectSeq([i \in 1..Len(db) |-> i],
                         LAMBDA i : OpenFilter(db, i))
    IN  [k \in 1..Len(ids) |->
            [id |-> ids[k],
             chain |-> db[ids[k]].chain,
             token_address |-> db[ids[k]].token_address,
             quote_token |-> db[ids[k]].quote_token,
             entry_amount_token |-> db[ids[k]].entry_amount_token,
             actual_entry_price |-> db[ids[k]].actual_entry_price,
             target_entry_price |-> db[ids[k]].target_entry_price,
             take_profit_price |-> db[ids[k]].take_profit_price,
             stop_loss_price |-> db[ids[k]].stop_loss_price,
             status |-> db[ids[k]].status]]

\* pos_data.get(key, default) on the dict built by _get_open_positions
DictGet(d, key, default) == IF key \in DOMAIN d THEN d[key] ELSE default

----
\* What one _check_position call did: the table after it, the calls it made
\* in order, what they returned (None for a call not made), the quote it
\* asked for, and whether a callback raised.
NoOutcome(db) ==
    [db |-> db, calls |-> <<>>, price |-> None, balance |-> None,
     quote_req |-> None, quote |-> None, result |-> None, raised |-> FALSE]

\* The status _execute_entry writes.
EntryStatus == "active"

\* Mutant of entry_update: the entry stamps closed_at instead of opened_at.
entry_update_stamps_closed(db, position_id, trade_amount, result, t) ==
    [db EXCEPT ![position_id] =
        [@ EXCEPT !.status = "active",
                  !.entry_amount_quote = trade_amount,
                  !.entry_amount_token = result.amount_out,
                  !.actual_entry_price = result.price,
                  !.closed_at = Some(t),
                  !.entry_tx_hash = result.tx_hash]]

\* Mutant of entry_update: the transaction reference is written by a later
\* statement that is not made.
entry_update_no_hash(db, position_id, trade_amount, result, t) ==
    [db EXCEPT ![position_id] =
        [@ EXCEPT !.status = "active",
                  !.entry_amount_quote = trade_amount,
                  !.entry_amount_token = result.amount_out,
                  !.actual_entry_price = result.price,
                  !.opened_at = Some(t)]]

\* The UPDATE of _execute_entry.
entry_update(db, position_id, trade_amount, result, t) ==
    [db EXCEPT ![position_id] =
        [@ EXCEPT !.status = EntryStatus,
                  !.entry_amount_quote = trade_amount,
                  !.entry_amount_token = result.amount_out,
                  !.actual_entry_price = result.price,
                  !.opened_at = Some(t),
                  !.entry_tx_hash = result.tx_hash]]

\* Mutant of swap_succeeded: the success flag is not looked at.
swap_succeeded_unchecked(result) == TRUE

\* `if result.success:` in _execute_entry and _execute_exit
swap_succeeded(result) == result.success

\* Mutant of swap_failed: a failed swap marks the position failed.
swap_failed_marks_failed(db, position_id) ==
    [db EXCEPT ![position_id] = [@ EXCEPT !.status = "failed"]]

\* Mutant of swap_failed: after a failed swap the engine gives the position
\* up and closes it.
swap_failed_gives_up(db, position_id) ==
    [db EXCEPT ![position_id] = [@ EXCEPT !.status = "closed_sl"]]

\* The else branch of _execute_entry / _execute_exit: the error is logged.
swap_failed(db, position_id) == db

\* Mutant of after_callback: a raising callback undoes the UPDATE.
after_callback_rollback(db_before, db_after, raised) ==
    IF raised THEN db_before ELSE db_after

\* The callback is awaited after `await self.db.commit()`: the table keeps
\* the UPDATE whether or not the callback raises.
after_callback(db_before, db_after, raised) == db_after

\* Mutant of no_token_amount: only a negative amount stops the exit.
no_token_amount_negative(token_amount) == token_amount < 0

\* `if not token_amount or token_amount <= 0` in _execute_exit
no_token_amount(token_amount) == token_amount = 0 \/ token_amount <= 0

\* Mutant of trade_amount_of: the whole balance is traded.
trade_amount_of_whole(balance) == balance

\* trade_amount = balance * capital_percent
trade_amount_of(balance) ==
    (balance * CapitalPercentNum) \div CapitalPercentDen

\* _execute_entry
execute_entry(db, t, position_id, pos_data, dex, current_price, dry_run, slippage, opened_hook, in) ==
    LET quote_token == quote_token_for(pos_data.chain)
        balance == get_token_balance(dex, in.balance)
        trade_amount == trade_amount_of(balance)
        req == [input_token |-> quote_token[1],
                output_token |-> pos_data.token_address,
                amount |-> trade_amount,
                slippage |-> slippage]
        quote == get_quote(req.input_token, req.output_token, req.amount,
                           in.quote)
        result == execute_swap(dex, quote[1], dry_run, in.sent)
        o1 == [NoOutcome(db) EXCEPT !.calls = <<"get_token_balance">>,
                                    !.balance = Some(balance)]
        o2 == [o1 EXCEPT !.calls = @ \o <<"get_quote">>,
                         !.quote_req = Some(req), !.quote = quote]
        o3 == [o2 EXCEPT !.calls = @ \o <<"execute_swap">>,
                         !.result = Some(result)]
    IN  IF quote_token = None THEN NoOutcome(db)
        ELSE IF trade_amount <= 0 THEN o1
        ELSE IF quote = None THEN o2
        ELSE IF swap_succeeded(result)
        THEN [o3 EXCEPT
                !.db = after_callback(db,
                        entry_update(db, position_id, trade_amount, result,
                                     t),
                        opened_hook /\ in.cb_raises),
                !.calls = @ \o <<"commit">>
                            \o (IF opened_hook THEN <<"on_position_opened">>
                                ELSE <<>>),
                !.raised = opened_hook /\ in.cb_raises]
        ELSE [o3 EXCEPT !.db = swap_failed(db, position_id)]

\* The status _execute_exit writes for an exit type.
ExitStatus(exit_type) == IF exit_type = "tp" THEN "closed_tp" ELSE "closed_sl"

\* Mutant of pnl_percent_of: the ratio is not scaled to a percentage.
pnl_percent_of_unscaled(current_price, entry_price) ==
    IF entry_price.num > 0
    THEN Frac(current_price * entry_price.den - entry_price.num,
              entry_price.num)
    ELSE Zero

\* Mutant of pnl_percent_of: without an entry price the position counts as
\* a total loss.
pnl_percent_of_total_loss(current_price, entry_price) ==
    IF entry_price.num > 0
    THEN Frac((current_price * entry_price.den - entry_price.num) * 100,
              entry_price.num)
    ELSE Frac(-100, 1)

\* pnl_percent of _execute_exit
pnl_percent_of(current_price, entry_price) ==
    IF entry_price.num > 0
    THEN Frac((current_price * entry_price.den - entry_price.num) * 100,
              entry_price.num)
    ELSE Zero

\* Mutant of exit_update: the UPDATE without its WHERE id = ? clause.
exit_update_all(db, position_id, exit_type, result, current_price, pnl_percent, pnl_absolute, t) ==
    [i \in 1..Len(db) |->
        [db[i] EXCEPT !.status = IF exit_type = "tp" THEN "closed_tp"
                                 ELSE "closed_sl",
                      !.closed_at = Some(t),
                      !.exit_tx_hash = result.tx_hash,
                      !.exit_price = Some(current_price),
                      !.pnl_percent = Some(pnl_percent),
                      !.pnl_absolute = Some(pnl_absolute)]]

\* Mutant of exit_update: the exit also zeroes the token amount sold.
exit_update_clears_entry(db, position_id, exit_type, result, current_price, pnl_percent, pnl_absolute, t) ==
    [db EXCEPT ![position_id] =
        [@ EXCEPT !.status = IF exit_type = "tp" THEN "closed_tp"
                             ELSE "closed_sl",
                  !.entry_amount_token = 0,
                  !.closed_at = Some(t),
                  !.exit_tx_hash = result.tx_hash,
                  !.exit_price = Some(current_price),
                  !.pnl_percent = Some(pnl_percent),
                  !.pnl_absolute = Some(pnl_absolute)]]

\* The UPDATE of _execute_exit.
exit_update(db, position_id, exit_type, result, current_price, pnl_percent, pnl_absolute, t) ==
    [db EXCEPT ![position_id] =
        [@ EXCEPT !.status = ExitStatus(exit_type),
                  !.closed_at = Some(t),
                  !.exit_tx_hash = result.tx_hash,
                  !.exit_price = Some(current_price),
                  !.pnl_percent = Some(pnl_percent),
                  !.pnl_absolute = Some(pnl_absolute)]]

\* Mutant of exit_token_amount: half of the position is sold.
exit_token_amount_half(pos_data) == pos_data.entry_amount_token \div 2

\* token_amount = pos_data["entry_amount_token"]
exit_token_amount(pos_data) == pos_data.entry_amount_token

\* _execute_exit
execute_exit(db, t, position_id, pos_data, dex, current_price, exit_type, dry_run, slippage, closed_hook, in) ==
    LET token_amount == exit_token_amount(pos_data)
        quote_token == quote_token_for(pos_data.chain)
        req == [input_token |-> pos_data.token_address,
                output_token |-> quote_token[1],
                amount |-> token_amount,
                slippage |-> slippage]
        quote == get_quote(req.input_token, req.output_token, req.amount,
                           in.quote)
        result == execute_swap(dex, quote[1], dry_run, in.sent)
        pnl_percent == pnl_percent_of(current_price,
                                      pos_data.actual_entry_price)
        pnl_absolute == result.amount_out
                            - DictGet(pos_data, "entry_amount_quote", 0)
        o2 == [NoOutcome(db) EXCEPT !.calls = <<"get_quote">>,
                                    !.quote_req = Some(req), !.quote = quote]
        o3 == [o2 EXCEPT !.calls = @ \o <<"execute_swap">>,
                         !.result = Some(result)]
    IN  IF no_token_amount(token_amount) THEN NoOutcome(db)
        ELSE IF quote_token = None THEN NoOutcome(db)
        ELSE IF quote = None THEN o2
        ELSE IF swap_succeeded(result)
        THEN [o3 EXCEPT
                !.db = after_callback(db,
                        exit_update(db, position_id, exit_type, result,
                                    current_price, pnl_percent, pnl_absolute,
                                    t),
                        closed_hook /\ in.cb_raises),
                !.calls = @ \o <<"commit">>
                            \o (IF closed_hook THEN <<"on_position_closed">>
                                ELSE <<>>),
                !.raised = closed_hook /\ in.cb_raises]
        ELSE [o3 EXCEPT !.db = swap_failed(db, position_id)]

\* Mutant of entry_hit: a strict comparison.
entry_hit_strict(current_price, target_entry) == current_price < target_entry

\* The entry test of _check_position (LONG: enter when price <= target).
entry_hit(current_price, target_entry) == current_price <= target_entry

\* Mutant of exit_hit: stop-loss tested before take-profit.
exit_hit_sl_first(current_price, take_profit, stop_loss) ==
    IF current_price <= stop_loss THEN "sl"
    ELSE IF current_price >= take_profit THEN "tp"
    ELSE ""

\* The exit tests of _check_position, take-profit first: "tp", "sl" or "".
exit_hit(current_price, take_profit, stop_loss) ==
    IF current_price >= take_profit THEN "tp"
    ELSE IF current_price <= stop_loss THEN "sl"
    ELSE ""

\* `if not current_price` in _check_position
no_price(current_price) ==
    current_price = None \/ current_price[1] = 0

\* Mutant of no_backend_skip: the position is marked failed.
no_backend_skip_fails(db, position_id) ==
    NoOutcome([db EXCEPT ![position_id] = [@ EXCEPT !.status = "failed"]])

\* `if not dex: return` in _check_position
no_backend_skip(db, position_id) == NoOutcome(db)

\* _check_position
check_position(db, t, pos_data, dexes, dry_run, slippage, hk, in) ==
    LET position_id == pos_data.id
        dex == dexes[pos_data.chain]
        current_price == get_token_price(in.feed)
        exit_type == exit_hit(current_price[1], pos_data.take_profit_price,
                              pos_data.stop_loss_price)
        o0 == [NoOutcome(db) EXCEPT !.calls = <<"get_token_price">>,
                                    !.price = current_price]
        sub == IF pos_data.status = "pending"
               THEN execute_entry(db, t, position_id, pos_data, dex,
                                  current_price[1], dry_run, slippage,
                                  hk.opened, in)
               ELSE execute_exit(db, t, position_id, pos_data, dex,
                                 current_price[1], exit_type, dry_run,
                                 slippage, hk.closed, in)
        fire == IF pos_data.status = "pending"
                THEN entry_hit(current_price[1],
                               pos_data.target_entry_price)
                ELSE pos_data.status = "active" /\ exit_type # ""
    IN  IF pos_data.chain \notin DOMAIN dexes
        THEN no_backend_skip(db, position_id)
        ELSE IF no_price(current_price) THEN o0
        ELSE IF fire
        THEN [sub EXCEPT !.calls = o0.calls \o @, !.price = o0.price]
        ELSE o0

----
\* Mutant of process_signal_create: the row is saved before the backend
\* lookup.
process_signal_create_early(db, t, signal, chain, dexes) ==
    IF chain = None
    THEN [db |-> db, ret |-> None, trace |-> <<>>]
    ELSE IF chain[1] \notin DOMAIN dexes
    THEN [db |-> save_position(db, Position(0, signal, chain[1]), t),
          ret |-> None, trace |-> <<"dex_lookup">>]
    ELSE [db |-> save_position(db, Position(0, signal, chain[1]), t),
          ret |-> Some(Position(Len(db) + 1, signal, chain[1])),
          trace |-> <<"dex_lookup", "insert">>]

\* process_signal, from the chain answer on: the backend lookup, the
\* Position and the INSERT.  Gives the table, the value returned and the
\* steps taken.
process_signal_create(db, t, signal, chain, dexes) ==
    IF chain = None
    THEN [db |-> db, ret |-> None, trace |-> <<>>]
    ELSE IF chain[1] \notin DOMAIN dexes
    THEN [db |-> db, ret |-> None, trace |-> <<"dex_lookup">>]
    ELSE [db |-> save_position(db, Position(0, signal, chain[1]), t),
          ret |-> Some(Position(Len(db) + 1, signal, chain[1])),
          trace |-> <<"dex_lookup", "insert">>]

\* Mutant of capacity_reached: a strict comparison.
capacity_reached_strict(active_count, max_positions) ==
    active_count > max_positions

\* The capacity test of process_signal.
capacity_reached(active_count, max_positions) ==
    active_count >= max_positions

IdleCall == [pc |-> "idle", signal |-> None, active_count |-> 0]

InFlight == {c \in Callers : ps[c].pc # "idle"}

\* `last` observes the step just taken: nothing, the return of a
\* process_signal call, or a _check_position call.
NoStep == [op |-> "none"]

Returned(c, signal, active_count, chain, ret, trace) ==
    [op |-> "return", caller |-> c, signal |-> signal,
     active_count |-> active_count, chain |-> chain, ret |-> ret,
     trace |-> trace]

Checked(pos_data, feed, o) ==
    [op |-> "check", id |-> pos_data.id, status |-> pos_data.status,
     feed |-> feed, calls |-> o.calls, price |-> o.price,
     balance |-> o.balance, quote_req |-> o.quote_req, quote |-> o.quote,
     result |-> o.result, raised |-> o.raised]

\* A caller invokes process_signal(s): the COUNT query is issued.  Callers
\* are interchangeable, so the idle caller of least index makes the call.
ProcessSignalCall(c, s) ==
    /\ ps[c].pc = "idle"
    /\ \A d \in Callers : d < c => ps[d].pc # "idle"
    /\ Len(positions) + Cardinality(InFlight) < MaxRows
    /\ ps' = [ps EXCEPT ![c] =
                [pc |-> "count", signal |-> Some(s),
                 active_count |-> count_active_positions(positions)]]
    /\ last' = NoStep
    /\ UNCHANGED <<config, dex_instances, positions, is_monitoring,
                   mon_pc, open_positions, hooks, db_open, detector_open, cur>>

\* process_signal resumes with the count: rejects, or detects the chain; a
\* Solana or malformed address is answered without suspending, an EVM
\* address suspends on the DexScreener request.
ProcessSignalCounted(c) ==
    /\ ps[c].pc = "count"
    /\ LET signal == ps[c].signal[1]
           format == detect_address_format(signal.contract_address)
           chain == IF format = None THEN None ELSE Some("solana")
           r == process_signal_create(positions, Timestamp, signal, chain,
                                      dex_instances)
       IN  IF capacity_reached(ps[c].active_count, config.max_positions)
           THEN /\ ps' = [ps EXCEPT ![c] = IdleCall]
                /\ last' = Returned(c, signal, ps[c].active_count, None,
                                    None, <<"count">>)
                /\ UNCHANGED positions
           ELSE IF format = Some("evm")
           THEN /\ ps' = [ps EXCEPT ![c] = [@ EXCEPT !.pc = "detect"]]
                /\ last' = NoStep
                /\ UNCHANGED positions
           ELSE /\ ps' = [ps EXCEPT ![c] = IdleCall]
                /\ last' = Returned(c, signal, ps[c].active_count, chain,
                                    r.ret,
                                    <<"count", "detect_chain">> \o r.trace)
                /\ positions' = r.db
    /\ UNCHANGED <<config, dex_instances, is_monitoring, mon_pc,
                   open_positions, hooks, db_open, detector_open, cur>>

\* process_signal resumes with the answer of _detect_evm_chain.
ProcessSignalDetected(c, chain) ==
    /\ ps[c].pc = "detect"
    /\ LET signal == ps[c].signal[1]
           r == process_signal_create(positions, Timestamp, signal, chain,
                                      dex_instances)
       IN  /\ ps' = [ps EXCEPT ![c] = IdleCall]
           /\ last' = Returned(c, signal, ps[c].active_count, chain, r.ret,
                               <<"count", "detect_chain">> \o r.trace)
           /\ positions' = r.db
    /\ UNCHANGED <<config, dex_instances, is_monitoring, mon_pc,
                   open_positions, hooks, db_open, detector_open, cur>>

----
\* Mutant of start_monitoring: the flag is not looked at.
start_monitoring_unguarded(monitoring, pc) == "top"

\* start_monitoring: `if self.is_monitoring: return`, else a task is
\* created that starts at the top of _monitor_loop.  Gives where the
\* monitor task stands after the call.
start_monitoring(monitoring, pc) == IF monitoring THEN pc ELSE "top"

\* A call of start_monitoring; it has no await, so it runs in one step.
StartMonitoring ==
    /\ is_monitoring' = TRUE
    /\ mon_pc' = start_monitoring(is_monitoring, mon_pc)
    /\ last' = [op |-> "start_monitoring", was_monitoring |-> is_monitoring]
    /\ UNCHANGED <<config, dex_instances, positions, ps, open_positions,
                   hooks, db_open, detector_open, cur>>

\* _monitor_loop, top of an iteration (task start, or the sleep is over):
\* the SELECT succeeds (the connection is open) and gives the open
\* positions; with none to check the iteration is over.
MonitorRead ==
    /\ mon_pc = "top"
    /\ is_monitoring
    /\ db_open
    /\ open_positions' = get_open_positions(positions)
    /\ mon_pc' = IF open_positions' = <<>> THEN "top" ELSE "check"
    /\ last' = NoStep
    /\ UNCHANGED <<config, dex_instances, positions, ps, is_monitoring,
                   hooks, db_open, detector_open, cur>>

\* _monitor_loop: one _check_position call on the next position of the
\* list.  An exception (a callback raising) ends the iteration in the
\* handler of the loop; after the last position the loop sleeps.
MonitorCheck(in) ==
    /\ mon_pc = "check"
    /\ open_positions # <<>>
    /\ LET pos_data == Head(open_positions)
           o == check_position(positions, Timestamp, pos_data, dex_instances,
                               config.dry_run, config.slippage_tolerance,
                               hooks, in)
           rest == IF o.raised THEN <<>> ELSE Tail(open_positions)
       IN  /\ positions' = o.db
           /\ open_positions' = rest
           /\ mon_pc' = IF rest = <<>> THEN "top" ELSE "check"
           /\ last' = Checked(pos_data,
                              IF o.calls = <<>> THEN None ELSE in.feed, o)
    /\ UNCHANGED <<config, dex_instances, ps, is_monitoring, hooks, db_open, detector_open, cur>>

\* The replies one _check_position call can consume; a reply that is never
\* asked for (no balance read after a failed price, no swap after a failed
\* quote, ...) is fixed to its first value.  An exit reads no balance, so
\* every exit is covered by the replies with a positive balance.
CheckInputs ==
    {in \in [feed : PriceFeeds, balance : BalanceReplies,
             quote : QuoteReplies, sent : BOOLEAN, cb_raises : BOOLEAN] :
        /\ (in.feed \in {None, Some(0)} => in.balance = None)
        /\ (in.balance \in {None, Some(0)} => in.quote = None)
        /\ (in.quote = None => ~in.sent)
        /\ (~in.sent => ~in.cb_raises)}

----
\* Deployments with one of the two keys configured.
WalletConfigs ==
    {w \in [solana_private_key : KeyStates, evm_private_key : KeyStates] :
        (w.solana_private_key = "none") # (w.evm_private_key = "none")}

MaxPositionsChoices == 1..(MaxRows - 1)

\* SLIPPAGE_TOLERANCE settings, in percent: the default and another one.
SlippageChoices == {DefaultSlippage, DefaultSlippage + 1}

Init ==
    /\ config \in [max_positions : MaxPositionsChoices, dry_run : BOOLEAN,
                    slippage_tolerance : SlippageChoices]
    /\ \E wallet \in WalletConfigs :
            dex_instances = init_dex_instances(wallet)
    /\ positions = <<>>
    /\ ps = [c \in Callers |-> IdleCall]
    /\ is_monitoring = FALSE
    /\ mon_pc = "none"
    /\ open_positions = <<>>
    /\ hooks \in {[opened |-> b, closed |-> b] : b \in BOOLEAN}
    /\ db_open = TRUE
    /\ detector_open = TRUE
    /\ cur = None
    /\ last = NoStep

Next ==
    \/ \E c \in Callers, s \in Signals : ProcessSignalCall(c, s)
    \/ \E c \in Callers : ProcessSignalCounted(c)
    \/ \E c \in Callers, chain \in EvmDetections :
            ProcessSignalDetected(c, chain)
    \/ StartMonitoring
    \/ MonitorRead
    \/ \E in \in CheckInputs : MonitorCheck(in)

Spec == Init /\ [][Next]_vars

----
\* The engine restarted on a table that already holds a row (the database
\* file outlives the process), and the backend and model functions called
\* on their own.

\* Realized entry prices a row can hold, zero and negative included.
EntryPrices == {Frac(-1, 1), Zero, Frac(1, 2), Frac(1, 1), Frac(2, 1)}

StoredSignals ==
    {s \in Signals : s.direction = "long"
                     /\ s.contract_address \in {AddrSolana, AddrEvm}}

StoredChain(s) ==
    IF s.contract_address = AddrSolana THEN "solana" ELSE "ethereum"

\* A row as process_signal leaves it.
PendingTable(s) ==
    save_position(<<>>, Position(0, s, StoredChain(s)), Timestamp)

\* A row as _execute_entry leaves it after a swap of 1 for amount_out at
\* price.
ActiveTable(s, amount_out, price) ==
    entry_update(PendingTable(s), 1, 1,
                 TradeResult(TRUE, Some("tx"), 1, amount_out, price, None),
                 Timestamp)

\* Two rows as two process_signal calls leave them, one per chain family.
PendingPair(s1, s2) ==
    save_position(PendingTable(s1), Position(0, s2, StoredChain(s2)),
                  Timestamp)

StoredTables ==
    {PendingTable(s) : s \in StoredSignals}
        \cup {ActiveTable(s, a, e) :
                s \in StoredSignals, a \in 0..MaxAmount, e \in EntryPrices}
        \cup {PendingPair(p[1], p[2]) :
                p \in {q \in StoredSignals \X StoredSignals : q[1] # q[2]}}

\* Backends as their constructors build them.
Backends ==
    {NewDex("jupiter", "solana", k) : k \in KeyStates}
        \cup {NewDex("oneinch", c, k) : c \in {"ethereum", "bsc"},
                                        k \in KeyStates}

\* Quotes as get_quote builds them.
Quotes ==
    {get_quote(<<"USDT", "solana">>, AddrSolana, a, Some(r))[1] :
        a \in 1..(MaxAmount + 1), r \in 0..MaxAmount}

\* The functions below are pure: they are called once, before monitoring
\* starts, which shows every answer they can give.
CanCall == mon_pc = "none" /\ last = NoStep

\* dex.execute_swap(quote, dry_run)
CallExecuteSwap(dex, quote, dry_run, tx) ==
    /\ CanCall
    /\ last' = [op |-> "execute_swap", dex |-> dex, quote |-> quote,
                dry_run |-> dry_run, tx |-> tx,
                result |-> execute_swap(dex, quote, dry_run,
                                        swap_sent(dex, tx))]
    /\ UNCHANGED <<config, dex_instances, positions, ps, is_monitoring,
                   mon_pc, open_positions, hooks, db_open, detector_open, cur>>

\* dex.get_token_balance(token_address)
CallGetTokenBalance(dex, rpc) ==
    /\ CanCall
    /\ last' = [op |-> "get_token_balance", dex |-> dex, rpc |-> rpc,
                result |-> get_token_balance(dex, rpc)]
    /\ UNCHANGED <<config, dex_instances, positions, ps, is_monitoring,
                   mon_pc, open_positions, hooks, db_open, detector_open, cur>>

\* dex.get_native_balance()
CallGetNativeBalance(dex, rpc) ==
    /\ CanCall
    /\ last' = [op |-> "get_native_balance", dex |-> dex, rpc |-> rpc,
                result |-> get_native_balance(dex, rpc)]
    /\ UNCHANGED <<config, dex_instances, positions, ps, is_monitoring,
                   mon_pc, open_positions, hooks, db_open, detector_open, cur>>

\* position.calculate_pnl(exit_price)
CallCalculatePnl(position, exit_price) ==
    /\ CanCall
    /\ last' = [op |-> "calculate_pnl", position |-> position,
                exit_price |-> exit_price,
                result |-> calculate_pnl(position, exit_price)]
    /\ UNCHANGED <<config, dex_instances, positions, ps, is_monitoring,
                   mon_pc, open_positions, hooks, db_open, detector_open, cur>>

InitCalls ==
    /\ config \in [max_positions : MaxPositionsChoices, dry_run : BOOLEAN,
                    slippage_tolerance : SlippageChoices]
    /\ \E wallet \in WalletConfigs :
            dex_instances = init_dex_instances(wallet)
    /\ positions \in StoredTables
    /\ ps = [c \in Callers |-> IdleCall]
    /\ is_monitoring = FALSE
    /\ mon_pc = "none"
    /\ open_positions = <<>>
    /\ hooks \in {[opened |-> b, closed |-> b] : b \in BOOLEAN}
    /\ db_open = TRUE
    /\ detector_open = TRUE
    /\ cur = None
    /\ last = NoStep

NextCalls ==
    \/ StartMonitoring
    \/ MonitorRead
    \/ \E in \in CheckInputs : MonitorCheck(in)
    \/ \E dex \in Backends, quote \in Quotes, dry_run \in BOOLEAN,
          tx \in TxOutcomes : CallExecuteSwap(dex, quote, dry_run, tx)
    \/ \E dex \in Backends, rpc \in BalanceReplies :
            CallGetTokenBalance(dex, rpc)
    \/ \E dex \in Backends, rpc \in BalanceReplies :
            CallGetNativeBalance(dex, rpc)
    \/ \E table \in StoredTables, exit_price \in 1..MaxPrice :
            CallCalculatePnl(table[1], exit_price)

SpecCalls == InitCalls /\ [][NextCalls]_vars

----
\* The monitoring loop with a Store that can fail and with close().

\* Mutant of after_loop_error: an exception ends the loop.
after_loop_error_stops == "stopped"

\* `except Exception as e:` of _monitor_loop: the error is logged, the task
\* sleeps 5 seconds and the `while` goes round again.
after_loop_error == "top"

\* What `last` observes of an exception that reached the handler of the
\* loop.
LoopError(at, calls) == [op |-> "loop_error", at |-> at, calls |-> calls]

\* _monitor_loop: the SELECT of _get_open_positions raises (always on a
\* closed connection, for some other failure of the Store on an open one).
MonitorReadFails ==
    /\ mon_pc = "top"
    /\ is_monitoring
    /\ mon_pc' = after_loop_error
    /\ open_positions' = <<>>
    /\ last' = LoopError("read", <<>>)
    /\ UNCHANGED <<config, dex_instances, positions, ps, is_monitoring,
                   hooks, db_open, detector_open, cur>>

\* _monitor_loop: a _check_position call whose swap succeeded and whose
\* UPDATE raises: nothing is written, no callback is invoked, the exception
\* leaves the `for` and reaches the handler of the loop.
MonitorCheckStoreFails(in) ==
    /\ mon_pc = "check"
    /\ open_positions # <<>>
    /\ LET pos_data == Head(open_positions)
           o == check_position(positions, Timestamp, pos_data, dex_instances,
                               config.dry_run, config.slippage_tolerance,
                               hooks, in)
       IN  /\ \E k \in 1..Len(o.calls) : o.calls[k] = "commit"
           /\ last' = LoopError("write",
                                SelectSeq(o.calls, LAMBDA c :
                                    c \notin {"commit", "on_position_opened",
                                              "on_position_closed"}))
    /\ mon_pc' = after_loop_error
    /\ open_positions' = <<>>
    /\ UNCHANGED <<config, dex_instances, positions, ps, is_monitoring,
                   hooks, db_open, detector_open, cur>>

\* The order in which _init_dex_instances fills dex_instances, which is the
\* order close() goes through its values.
DexOrder ==
    <<"solana", "ethereum", "ethereum_sepolia", "ethereum_goerli", "bsc",
      "base", "arbitrum">>

DexIndex(chain) == CHOOSE k \in 1..Len(DexOrder) : DexOrder[k] = chain

\* Which awaited close() raises in PositionManager.close: none, the one of
\* a registered backend, or the one of the chain detector.
CloseFailures(dexes) ==
    {None, Some("detector")} \cup {Some(c) : c \in DOMAIN dexes}

\* `for dex in self.dex_instances.values(): await dex.close()`: the first
\* close() that raises ends the loop (and close() with it); the backend it
\* was called on is left as it was.
close_backends(dexes, fail) ==
    [c \in DOMAIN dexes |->
        IF fail # None /\ fail # Some("detector")
           /\ DexIndex(c) >= DexIndex(fail[1])
        THEN dexes[c]
        ELSE [dexes[c] EXCEPT !.closed = TRUE]]

\* close(), called while the monitor task is not inside a _check_position
\* call: clears is_monitoring, cancels the monitor task if there is one and
\* waits for it, then closes the backends, the detector and the
\* connection, as far as it gets.
Close(fail) ==
    /\ db_open
    /\ cur = None
    /\ is_monitoring' = FALSE
    /\ mon_pc' = IF mon_pc = "none" THEN "none" ELSE "cancelled"
    /\ open_positions' = <<>>
    /\ dex_instances' = close_backends(dex_instances, fail)
    /\ detector_open' = IF fail = None THEN FALSE ELSE detector_open
    /\ db_open' = IF fail = None THEN FALSE ELSE db_open
    /\ last' = [op |-> "close", failed |-> fail, cancelled_in |-> None]
    /\ UNCHANGED <<config, positions, ps, hooks, cur>>

NextLoop ==
    \/ StartMonitoring
    \/ MonitorRead
    \/ \E in \in CheckInputs : MonitorCheck(in)
    \/ MonitorReadFails
    \/ \E in \in CheckInputs : MonitorCheckStoreFails(in)
    \/ Close(None)

SpecLoop == InitCalls /\ [][NextLoop]_vars

\* The event loop runs a task that is ready: the SELECT at the top of an
\* iteration is answered (or raises), and so is each _check_position call.
LoopFair ==
    /\ WF_vars(MonitorRead \/ MonitorReadFails)
    /\ WF_vars(\E in \in CheckInputs :
                    MonitorCheck(in) \/ MonitorCheckStoreFails(in))

SpecLoopFair == SpecLoop /\ LoopFair

----
\* The monitoring loop one await at a time, with close() arriving while the
\* task is suspended inside a _check_position call.

\* The _check_position call the task is suspended in: the replies it gets
\* and the number of its awaits that have completed.
InCheck(in, k) == Some([in |-> in, k |-> k])

\* What the call of the task on the position at the head of the list does
\* with the replies in, on the table as it is now.
CurOutcome(in) ==
    check_position(positions, Timestamp, Head(open_positions),
                   dex_instances, config.dry_run, config.slippage_tolerance,
                   hooks, in)

\* Mutant of write_done: the UPDATE is left to run after the call returns.
write_done_deferred(calls, k) == FALSE

\* The UPDATE and its commit are awaited in the call: the table holds the
\* transition once the first k awaits include the commit.
write_done(calls, k) == \E j \in 1..k : calls[j] = "commit"

\* _monitor_loop calls _check_position on the next position; the call runs
\* to its first await, or returns at once when it has none (no backend).
CheckCall(in) ==
    /\ mon_pc = "check"
    /\ cur = None
    /\ open_positions # <<>>
    /\ LET pos_data == Head(open_positions)
           o == CurOutcome(in)
       IN  IF o.calls = <<>>
           THEN /\ cur' = None
                /\ open_positions' = Tail(open_positions)
                /\ mon_pc' = IF Tail(open_positions) = <<>> THEN "top"
                             ELSE "check"
                /\ last' = Checked(pos_data, None, o)
           ELSE /\ cur' = InCheck(in, 0)
                /\ last' = NoStep
                /\ UNCHANGED <<open_positions, mon_pc>>
    /\ UNCHANGED <<config, dex_instances, positions, ps, is_monitoring,
                   hooks, db_open, detector_open>>

\* The await the call is suspended in completes; after its last await the
\* call returns (or raises, when a callback raised) and the loop goes on.
CheckResume ==
    /\ cur # None
    /\ LET pos_data == Head(open_positions)
           in == cur[1].in
           o == CurOutcome(in)
           k == cur[1].k + 1
           rest == IF o.raised THEN <<>> ELSE Tail(open_positions)
       IN  /\ positions' = IF write_done(o.calls, k) THEN o.db
                           ELSE positions
           /\ IF k = Len(o.calls)
              THEN /\ cur' = None
                   /\ open_positions' = rest
                   /\ mon_pc' = IF rest = <<>> THEN "top" ELSE "check"
                   /\ last' = Checked(pos_data, in.feed, o)
              ELSE /\ cur' = InCheck(in, k)
                   /\ last' = NoStep
                   /\ UNCHANGED <<open_positions, mon_pc>>
    /\ UNCHANGED <<config, dex_instances, ps, is_monitoring, hooks, db_open,
                   detector_open>>

\* close() while the task is suspended in an await of a _check_position
\* call: task.cancel() raises CancelledError at that await (the backends
\* catch Exception only), the loop breaks, and close() goes on to close the
\* backends, the detector and the connection.  An UPDATE whose commit was
\* interrupted is in the table or not.
CloseCancelsCheck(committed) ==
    /\ db_open
    /\ cur # None
    /\ LET pos_data == Head(open_positions)
           o == CurOutcome(cur[1].in)
           k == cur[1].k
           at == o.calls[k + 1]
       IN  /\ committed => at = "commit"
           /\ positions' = IF write_done(o.calls, k) \/ committed THEN o.db
                           ELSE positions
           /\ last' = [op |-> "close", failed |-> None,
                       cancelled_in |-> Some(at),
                       done |-> SubSeq(o.calls, 1, k),
                       id |-> pos_data.id, status |-> pos_data.status,
                       result |-> IF \E j \in 1..k :
                                        o.calls[j] = "execute_swap"
                                  THEN o.result ELSE None]
    /\ cur' = None
    /\ is_monitoring' = FALSE
    /\ mon_pc' = "cancelled"
    /\ open_positions' = <<>>
    /\ dex_instances' = close_backends(dex_instances, None)
    /\ detector_open' = FALSE
    /\ db_open' = FALSE
    /\ UNCHANGED <<config, ps, hooks>>

NextSteps ==
    \/ StartMonitoring
    \/ MonitorRead
    \/ \E in \in CheckInputs : CheckCall(in)
    \/ CheckResume
    \/ \E fail \in CloseFailures(dex_instances) : Close(fail)
    \/ \E committed \in BOOLEAN : CloseCancelsCheck(committed)

SpecSteps == InitCalls /\ [][NextSteps]_vars

----
\* Vocabulary of the properties below.
Rows == 1..Len(positions)

Open(row) == row.status \in {"pending", "active"}

Closed(row) == row.status \in {"closed_tp", "closed_sl"}

OpenCount == Cardinality({i \in Rows : Open(positions[i])})

Range(s) == {s[k] : k \in 1..Len(s)}

\* The step just taken was a _check_position call / a process_signal return.
JustChecked == last.op = "check"

JustReturned == last.op = "return"

Succeeded(result) == result # None /\ result[1].success

\* C1: a row's status only moves pending -> active -> closed_tp | closed_sl;
\* a new row starts pending; a row never disappears; a row that does not
\* make one of these two moves in a step (a closed row never can) keeps
\* every field.
C1_Lifecycle ==
    [][/\ Len(positions') >= Len(positions)
       /\ \A i \in 1..Len(positions') :
            IF i <= Len(positions)
            THEN \/ positions'[i] = positions[i]
                 \/ /\ positions[i].status = "pending"
                    /\ positions'[i].status = "active"
                 \/ /\ positions[i].status = "active"
                    /\ positions'[i].status \in {"closed_tp", "closed_sl"}
            ELSE positions'[i].status = "pending"]_vars

\* Two positions have run their whole lifecycle, one to each closed status.
C1_Witness ==
    \E i \in Rows, j \in Rows :
        /\ positions[i].status = "closed_tp"
        /\ positions[j].status = "closed_sl"

\* C2: a process_signal call that returns a Position appends exactly one row;
\* the row and the returned Position are pending and carry the signal's
\* entry, take-profit and stop-loss prices and its contract address.
C2_Created ==
    [][(last'.op = "return" /\ last'.ret # None) =>
        LET n == Len(positions')
            row == positions'[n]
            p == last'.ret[1]
            s == last'.signal
        IN  /\ n = Len(positions) + 1
            /\ SubSeq(positions', 1, n - 1) = positions
            /\ p.id = n
            /\ row.status = "pending" /\ p.status = "pending"
            /\ row.target_entry_price = s.entry_price
            /\ row.take_profit_price = s.take_profit
            /\ row.stop_loss_price = s.stop_loss
            /\ row.token_address = s.contract_address
            /\ p.target_entry_price = s.entry_price
            /\ p.take_profit_price = s.take_profit
            /\ p.stop_loss_price = s.stop_loss]_vars

\* A call has just returned a Position whose row is the last of the table.
C2_Witness ==
    /\ JustReturned
    /\ last.ret # None
    /\ Len(positions) = last.ret[1].id
    /\ positions[Len(positions)].status = "pending"

\* C3: the count a call works with is the number of pending and active rows
\* when it is made (closed rows are not counted); a call whose count is at
\* least max_positions returns no Position, leaves the table as it is and
\* goes no further than the count; a call whose count is below
\* max_positions and whose chain resolves to a registered backend is
\* accepted.
C3_Capacity ==
    [][/\ \A c \in Callers :
            (ps[c].pc = "idle" /\ ps'[c].pc = "count") =>
                ps'[c].active_count = OpenCount
       /\ (last'.op = "return"
           /\ last'.active_count >= config.max_positions) =>
                /\ last'.ret = None
                /\ positions' = positions
                /\ last'.trace = <<"count">>
       /\ (last'.op = "return"
           /\ last'.active_count < config.max_positions
           /\ last'.chain # None
           /\ last'.chain[1] \in DOMAIN dex_instances) =>
                last'.ret # None]_vars

\* A call has just been rejected for capacity while an open row exists.
C3_Witness ==
    /\ JustReturned
    /\ last.ret = None
    /\ last.trace = <<"count">>
    /\ last.active_count >= config.max_positions
    /\ \E i \in Rows : Open(positions[i])

\* C4: the number of pending and active positions never exceeds
\* max_positions, also when process_signal calls overlap.
C4_OpenWithinMax == OpenCount <= config.max_positions

\* C5: the steps of a call are a prefix of count, chain detection, backend
\* lookup, insert; a call rejected for capacity does not detect the chain; a
\* call whose chain does not resolve, or resolves to a chain without a
\* backend, returns no Position; a call that returns no Position leaves
\* the table as it is.
C5_Rejections ==
    [][(last'.op = "return") =>
        /\ \E n \in 1..4 :
              last'.trace =
                SubSeq(<<"count", "detect_chain", "dex_lookup", "insert">>,
                       1, n)
        /\ (last'.active_count >= config.max_positions =>
                "detect_chain" \notin Range(last'.trace))
        /\ ("detect_chain" \in Range(last'.trace) /\ last'.chain = None =>
                /\ last'.ret = None
                /\ "dex_lookup" \notin Range(last'.trace))
        /\ (last'.chain # None /\ last'.chain[1] \notin DOMAIN dex_instances
                => last'.ret = None /\ "insert" \notin Range(last'.trace))
        /\ (last'.ret = None => positions' = positions)]_vars

\* A call has just been rejected for want of a backend, with a row in the
\* table.
C5_Witness ==
    /\ JustReturned
    /\ last.ret = None
    /\ last.chain # None
    /\ last.trace = <<"count", "detect_chain", "dex_lookup">>
    /\ Len(positions) > 0

\* C6: for a pending position with an obtained price: at or below the target
\* the balance is read, a positive trade size gets a quote requested, an
\* available quote gets the swap executed, and a successful swap makes the
\* row active with the token amount and price of the TradeResult; above the
\* target the table is unchanged and the price was the only call.
C6_Entry ==
    [][(last'.op = "check" /\ last'.status = "pending"
        /\ last'.price # None) =>
        LET i == last'.id
            cp == last'.price[1]
        IN  IF cp <= positions[i].target_entry_price
            THEN /\ last'.balance # None
                 /\ (last'.balance[1] * CapitalPercentNum > 0 =>
                        last'.quote_req # None)
                 /\ (last'.quote # None => last'.result # None)
                 /\ (Succeeded(last'.result) =>
                        /\ positions'[i].status = "active"
                        /\ positions'[i].entry_amount_token =
                                last'.result[1].amount_out
                        /\ positions'[i].actual_entry_price =
                                last'.result[1].price)
            ELSE /\ positions' = positions
                 /\ last'.calls = <<"get_token_price">>]_vars

\* A pending position has just become active on a price equal to its target.
C6_Witness ==
    /\ JustChecked
    /\ last.status = "pending"
    /\ positions[last.id].status = "active"
    /\ last.price = Some(positions[last.id].target_entry_price)
    /\ positions[last.id].entry_amount_token > 0

\* C7: for an active position with an obtained price: with a successful
\* exit swap a price at or above take-profit closes it closed_tp and a
\* price below take-profit and at or below stop-loss closes it closed_sl; a
\* price strictly between the two leaves the table unchanged with the price
\* the only call; closed_tp is written only at or above take-profit and
\* closed_sl only at or below stop-loss and below take-profit.
C7_Exit ==
    [][(last'.op = "check" /\ last'.status = "active"
        /\ last'.price # None) =>
        LET i == last'.id
            cp == last'.price[1]
            tp == positions[i].take_profit_price
            sl == positions[i].stop_loss_price
        IN  /\ (cp >= tp /\ Succeeded(last'.result) =>
                    positions'[i].status = "closed_tp")
            /\ (cp < tp /\ cp <= sl /\ Succeeded(last'.result) =>
                    positions'[i].status = "closed_sl")
            /\ (cp < tp /\ cp > sl =>
                    /\ positions' = positions
                    /\ last'.calls = <<"get_token_price">>)
            /\ (positions'[i].status = "closed_tp" => cp >= tp)
            /\ (positions'[i].status = "closed_sl" => cp <= sl /\ cp < tp)
            /\ positions'[i].status \in {"active", "closed_tp", "closed_sl"}
       ]_vars

\* An active position has just been closed closed_tp on a price that is also
\* at or below its stop-loss.
C7_Witness ==
    /\ JustChecked
    /\ last.status = "active"
    /\ positions[last.id].status = "closed_tp"
    /\ last.price[1] <= positions[last.id].stop_loss_price

\* C8: a check whose price request fails or answers no price leaves the
\* table unchanged, makes no other call, and leaves the position pending or
\* active; and every read of the open positions lists every pending and
\* active row, so the position is checked again.
C8_NoPrice ==
    [][/\ (last'.op = "check" /\ last'.calls # <<>>
           /\ (last'.feed = None \/ last'.feed[1] = 0)) =>
                /\ positions' = positions
                /\ last'.calls = <<"get_token_price">>
                /\ Open(positions'[last'.id])
       /\ (mon_pc = "top" /\ is_monitoring /\ ps' = ps
           /\ last'.op = "none") =>
                \A i \in Rows :
                    Open(positions[i]) =>
                        \E k \in 1..Len(open_positions') :
                            open_positions'[k].id = i]_vars

\* An active position has just been checked with a failed price request.
C8_Witness ==
    /\ JustChecked
    /\ last.status = "active"
    /\ last.feed = None
    /\ last.calls = <<"get_token_price">>
    /\ positions[last.id].status = "active"

\* C9: a check in which the quote request answers no quote, or the swap
\* returns success false, leaves the table unchanged with the position in
\* the status it had (pending or active), and invokes no callback.
C9_Transient ==
    [][(last'.op = "check"
        /\ \/ last'.quote_req # None /\ last'.quote = None
           \/ last'.result # None /\ ~last'.result[1].success) =>
            /\ positions' = positions
            /\ positions'[last'.id].status = last'.status
            /\ last'.status \in {"pending", "active"}
            /\ "on_position_opened" \notin Range(last'.calls)
            /\ "on_position_closed" \notin Range(last'.calls)
            /\ ~last'.raised]_vars

\* The exit swap of an active position has just failed, with the callbacks
\* set.
C9_Witness ==
    /\ JustChecked
    /\ last.status = "active"
    /\ last.result # None
    /\ ~last.result[1].success
    /\ hooks.closed

\* C10: every row's status is pending, active, closed_tp or closed_sl.
C10_NeverFailed ==
    \A i \in Rows :
        positions[i].status \in {"pending", "active", "closed_tp",
                                 "closed_sl"}

\* The entry swap of a pending position has just failed and the position is
\* still pending.
C10_Witness ==
    /\ JustChecked
    /\ last.status = "pending"
    /\ last.result # None
    /\ ~last.result[1].success
    /\ positions[last.id].status = "pending"

\* The five columns the exit writes.
ExitFieldsSet(row) ==
    /\ row.exit_price # None
    /\ row.pnl_percent # None
    /\ row.pnl_absolute # None
    /\ row.closed_at # None
    /\ row.exit_tx_hash # None

ExitFieldsUnset(row) ==
    /\ row.exit_price = None
    /\ row.pnl_percent = None
    /\ row.pnl_absolute = None
    /\ row.closed_at = None
    /\ row.exit_tx_hash = None

\* The _check_position call just made closed its position.
JustClosed ==
    /\ JustChecked
    /\ last.status = "active"
    /\ Closed(positions[last.id])

\* C11: a closed_tp or closed_sl row has exit_price, pnl_percent,
\* pnl_absolute, closed_at and exit_tx_hash set; a pending or active row has
\* all five unset.
C11_ExitFields ==
    \A i \in Rows :
        /\ Closed(positions[i]) => ExitFieldsSet(positions[i])
        /\ Open(positions[i]) => ExitFieldsUnset(positions[i])

\* A closed row and an active row stand in the table together.
C11_Witness ==
    \E i \in Rows, j \in Rows :
        /\ Closed(positions[i])
        /\ positions[j].status = "active"

\* C12: a check of an active position whose entry_amount_token is not
\* greater than zero requests no quote, executes no swap and leaves the
\* table unchanged.
C12_NoTokensNoExit ==
    [][(last'.op = "check" /\ last'.status = "active"
        /\ positions[last'.id].entry_amount_token <= 0) =>
            /\ "get_quote" \notin Range(last'.calls)
            /\ "execute_swap" \notin Range(last'.calls)
            /\ positions' = positions]_vars

\* An active position holding no tokens has just been checked at a price at
\* or above its take-profit.
C12_Witness ==
    /\ JustChecked
    /\ last.status = "active"
    /\ positions[last.id].status = "active"
    /\ positions[last.id].entry_amount_token = 0
    /\ last.price # None
    /\ last.price[1] >= positions[last.id].take_profit_price

\* C13: a successful exit records pnl_absolute = the amount the exit swap
\* returned minus the entry_amount_quote recorded for the position.
C13_PnlAbsolute ==
    [][(last'.op = "check" /\ last'.status = "active"
        /\ Closed(positions'[last'.id])) =>
            positions'[last'.id].pnl_absolute =
                Some(last'.result[1].amount_out
                        - positions[last'.id].entry_amount_quote)]_vars

\* C14: a successful exit records exit_price = the price observed and, for a
\* recorded entry price e > 0, pnl_percent p with p * e = (price - e) * 100.
C14_PnlPercent ==
    [][(last'.op = "check" /\ last'.status = "active"
        /\ Closed(positions'[last'.id])) =>
            LET e == positions[last'.id].actual_entry_price
                cp == last'.price[1]
                p == positions'[last'.id].pnl_percent[1]
            IN  /\ positions'[last'.id].exit_price = Some(cp)
                /\ positions'[last'.id].actual_entry_price = e
                /\ e.num > 0 =>
                        p.num * e.num = (cp * e.den - e.num) * 100 * p.den
       ]_vars

\* A position has just been closed with a non-zero pnl_percent.
C14_Witness ==
    /\ JustClosed
    /\ positions[last.id].actual_entry_price.num > 0
    /\ positions[last.id].pnl_percent[1].num # 0
    /\ positions[last.id].exit_price = last.price

\* C18: a callback is invoked right after the commit of the transition it
\* reports (opened: pending -> active, closed: active -> closed), at most
\* once per check and exactly once when it is set and the transition is
\* made; when it raises the row keeps the committed transition; a swap is
\* executed only for the status the row has in the table, so a transition
\* made is not attempted again.
C18_Callbacks ==
    [][(last'.op = "check") =>
        LET i == last'.id
            calls == last'.calls
            pos(name) == {k \in 1..Len(calls) : calls[k] = name}
            moved == positions'[i].status # positions[i].status
        IN  /\ \A k \in pos("on_position_opened") \cup
                        pos("on_position_closed") :
                    k > 1 /\ calls[k - 1] = "commit" /\ moved
            /\ pos("on_position_opened") # {} =>
                    positions'[i].status = "active"
            /\ pos("on_position_closed") # {} => Closed(positions'[i])
            /\ Cardinality(pos("on_position_opened")) =
                    IF moved /\ hooks.opened
                       /\ positions'[i].status = "active" THEN 1 ELSE 0
            /\ Cardinality(pos("on_position_closed")) =
                    IF moved /\ hooks.closed /\ Closed(positions'[i])
                    THEN 1 ELSE 0
            /\ last'.raised => moved
            /\ "execute_swap" \in Range(calls) =>
                    last'.status = positions[i].status]_vars

\* The position-opened callback has just raised and the row is active.
C18_Witness ==
    /\ JustChecked
    /\ last.raised
    /\ last.status = "pending"
    /\ positions[last.id].status = "active"
    /\ "on_position_opened" \in Range(last.calls)

C16_DryRun ==
    [][(last'.op = "execute_swap" /\ last'.dry_run) =>
            /\ last'.result.success
            /\ last'.result.amount_in = last'.quote.input_amount
            /\ last'.result.amount_out = last'.quote.output_amount
            /\ last'.result.price = last'.quote.price
            /\ last'.result.tx_hash = Some("DRY_RUN_NO_TX")]_vars

\* C17: get_token_balance and get_native_balance answer 0 without a wallet
\* and on a failed lookup; an entry attempt that reads a balance of 0 makes
\* no further call and leaves the table unchanged, the position pending.
C17_ZeroBalance ==
    [][/\ (last'.op \in {"get_token_balance", "get_native_balance"}) =>
                /\ last'.result >= 0
                /\ (~last'.dex.wallet \/ last'.rpc = None) =>
                        last'.result = 0
       /\ (last'.op = "check" /\ last'.status = "pending"
           /\ last'.balance = Some(0)) =>
                /\ last'.calls = <<"get_token_price", "get_token_balance">>
                /\ positions' = positions
                /\ positions'[last'.id].status = "pending"]_vars

\* An entry attempt on a backend without a wallet has just been skipped.
C17_Witness ==
    /\ JustChecked
    /\ last.status = "pending"
    /\ last.balance = Some(0)
    /\ ~dex_instances[positions[last.id].chain].wallet
    /\ positions[last.id].status = "pending"

\* The monitor task is running its loop.
LoopRunning == mon_pc \in {"top", "check"}

\* C19: a Store failure in a monitoring iteration (the read of the open
\* positions or the write of a transition raises) stops the monitoring
\* loop.
C19_StoreFailureStops ==
    [][(last'.op = "loop_error") => ~LoopRunning']_vars

\* C20: a running loop stops running only in a close() step, which clears
\* is_monitoring and cancels the task; after an exception in an iteration
\* the loop is at the top of the next one, still monitoring; a loop that
\* stands in an iteration has a position to check; and an iteration that
\* has started comes to its end (the top of the loop) unless close()
\* cancels it.
C20_LoopExitsOnClose ==
    /\ [][/\ (LoopRunning /\ ~LoopRunning') =>
                    /\ last'.op = "close"
                    /\ ~is_monitoring'
                    /\ mon_pc' = "cancelled"
          /\ (last'.op = "loop_error") =>
                    /\ mon_pc' = "top"
                    /\ is_monitoring'
          /\ (last'.op = "check") => LoopRunning'
          /\ (mon_pc' = "check") => open_positions' # <<>>]_vars
    /\ (mon_pc = "check" ~> mon_pc \in {"top", "cancelled"})

\* The write of a transition has just failed and the loop is at the top of
\* its next iteration.
C20_Witness ==
    /\ last.op = "loop_error"
    /\ last.at = "write"
    /\ mon_pc = "top"
    /\ is_monitoring

\* A row made from a SHORT signal: the table keeps no direction column, and
\* Signal.__post_init__ lets a take-profit at or below the entry price
\* through for a SHORT only.
FromShort(row) == row.take_profit_price <= row.target_entry_price

\* C24: a position made from a SHORT signal never becomes active: it stays
\* pending and no entry swap is executed for it.
C24_ShortNeverActive ==
    [][/\ \A i \in 1..Len(positions') :
            FromShort(positions'[i]) => positions'[i].status = "pending"
       /\ (last'.op = "check" /\ FromShort(positions[last'.id])) =>
            "execute_swap" \notin Range(last'.calls)]_vars

\* C30: an entry that fires reads the quote-asset balance in that check and
\* sizes the trade at capital_percent of it; a positive size gets a quote
\* requested for exactly that size, from the quote asset into the token, with
\* the configured slippage tolerance; a successful entry records that size
\* as entry_amount_quote; a size of 0 or less gets no quote and no swap and
\* leaves the position pending.
C30_TradeSize ==
    [][(last'.op = "check" /\ last'.status = "pending"
        /\ last'.balance # None) =>
        LET i == last'.id
            share == last'.balance[1] * CapitalPercentNum
        IN  /\ last'.calls[2] = "get_token_balance"
            /\ (share <= 0 =>
                    /\ last'.calls = <<"get_token_price", "get_token_balance">>
                    /\ last'.quote_req = None
                    /\ last'.result = None
                    /\ positions' = positions
                    /\ positions'[i].status = "pending")
            /\ (share > 0 =>
                    /\ last'.quote_req # None
                    /\ last'.quote_req[1].amount * CapitalPercentDen = share
                    /\ last'.quote_req[1].slippage = config.slippage_tolerance
                    /\ last'.quote_req[1].input_token =
                            <<"USDT", positions[i].chain>>
                    /\ last'.quote_req[1].output_token =
                            positions[i].token_address)
            /\ (positions'[i].status = "active" =>
                    /\ positions'[i].entry_amount_quote * CapitalPercentDen
                            = share
                    /\ positions'[i].entry_amount_quote
                            = last'.quote_req[1].amount)]_vars

\* An entry has just been made at a slippage tolerance other than the
\* default, for 5% of the balance read.
C30_Witness ==
    /\ JustChecked
    /\ last.status = "pending"
    /\ positions[last.id].status = "active"
    /\ last.balance = Some(20)
    /\ positions[last.id].entry_amount_quote = 1
    /\ last.quote_req[1].slippage # DefaultSlippage

\* The ids of the positions the running iteration still has to check.
ToCheck == {open_positions[k].id : k \in 1..Len(open_positions)}

\* C28: the read at the top of an iteration lists exactly the pending and
\* active rows of the table, each once, in id order, with the status they
\* have then; a position still to be checked has in the list the status it
\* has in the table; a row inserted while an iteration is in progress is not
\* in that iteration's list (the next read lists it); a check applies the
\* rule of the status the row has in the table: the entry rule reads no
\* balance for an active row and an exit is only made from active.
C28_FreshRead ==
    [][/\ (mon_pc = "top" /\ is_monitoring /\ ps' = ps
           /\ last'.op = "none") =>
            /\ {open_positions'[k].id : k \in 1..Len(open_positions')}
                    = {i \in Rows : Open(positions[i])}
            /\ \A k \in 1..Len(open_positions') :
                    /\ open_positions'[k].status =
                            positions[open_positions'[k].id].status
                    /\ \A j \in 1..(k - 1) :
                            open_positions'[j].id < open_positions'[k].id
       /\ \A k \in 1..Len(open_positions') :
            open_positions'[k].status =
                positions'[open_positions'[k].id].status
       /\ (mon_pc = "check" /\ Len(positions') > Len(positions)) =>
            /\ open_positions' = open_positions
            /\ Len(positions') \notin ToCheck'
       /\ (last'.op = "check") =>
            /\ last'.status = positions[last'.id].status
            /\ (last'.status = "active" =>
                    /\ "get_token_balance" \notin Range(last'.calls)
                    /\ positions'[last'.id].status # "pending")
            /\ (last'.status = "pending" =>
                    ~Closed(positions'[last'.id]))]_vars

\* A position has just been created while an iteration is checking another
\* one.
C28_Witness ==
    /\ JustReturned
    /\ last.ret # None
    /\ mon_pc = "check"
    /\ ToCheck # {}
    /\ last.ret[1].id \notin ToCheck
    /\ positions[last.ret[1].id].status = "pending"

\* C29: a check of a position whose chain has no registered backend makes
\* no call (no price, balance, quote or swap), leaves the table as it is
\* with the row in the status it had, raises nothing, and the loop goes on
\* to the next position of the list.
C29_NoBackendSkip ==
    [][(last'.op = "check"
        /\ positions[last'.id].chain \notin DOMAIN dex_instances) =>
            /\ last'.calls = <<>>
            /\ last'.price = None
            /\ last'.balance = None
            /\ last'.quote_req = None
            /\ last'.result = None
            /\ ~last'.raised
            /\ positions' = positions
            /\ positions'[last'.id].status = last'.status
            /\ positions'[last'.id].status # "failed"
            /\ open_positions' = Tail(open_positions)
            /\ mon_pc' =
                IF Tail(open_positions) = <<>> THEN "top" ELSE "check"]_vars

\* A position without a backend has just been skipped and the iteration
\* goes on with a position that has one.
C29_Witness ==
    /\ JustChecked
    /\ last.calls = <<>>
    /\ positions[last.id].chain \notin DOMAIN dex_instances
    /\ mon_pc = "check"
    /\ open_positions # <<>>
    /\ Head(open_positions).chain \in DOMAIN dex_instances

\* C27: with dry_run false, execute_swap reports success only for a
\* transaction confirmed as succeeded, and reports failure for a transaction
\* confirmed as failed.
C27_SwapFinality ==
    [][(last'.op = "execute_swap" /\ ~last'.dry_run) =>
            /\ last'.result.success => last'.tx = "confirmed"
            /\ last'.tx = "reverted" => ~last'.result.success]_vars

----
\* get_position_stats, called at any time while the connection is open.

\* SUM(pnl_absolute) of the group of a status over the first n rows: NULL
\* when the group has no non-NULL value.
RECURSIVE sum_pnl(_, _, _)
sum_pnl(db, status, n) ==
    IF n = 0 THEN None
    ELSE LET rest == sum_pnl(db, status, n - 1)
             v == IF db[n].status = status THEN db[n].pnl_absolute ELSE None
         IN  IF v = None THEN rest
             ELSE IF rest = None THEN v
             ELSE Some(rest[1] + v[1])

\* The keys the stats dict starts with.
StatsKeys == {"pending", "active", "closed_tp", "closed_sl"}

\* Mutant of get_position_stats: total_pnl is assigned, not added to, so it
\* keeps the sum of the last group the query lists with a non-zero sum.
get_position_stats_assigns(db) ==
    LET groups == {db[i].status : i \in 1..Len(db)}
        pnl(st) == sum_pnl(db, st, Len(db))
        counted(st) == st \in groups /\ pnl(st) # None /\ pnl(st)[1] # 0
    IN  [k \in StatsKeys \cup groups \cup {"total_pnl"} |->
            IF k = "total_pnl"
            THEN IF counted("closed_tp") THEN pnl("closed_tp")[1]
                 ELSE IF counted("closed_sl") THEN pnl("closed_sl")[1]
                 ELSE 0
            ELSE Cardinality({i \in 1..Len(db) : db[i].status = k})]

\* get_position_stats: one row per status present (GROUP BY status) with
\* its COUNT(*) and SUM(pnl_absolute); `if pnl:` skips a NULL or zero sum.
get_position_stats(db) ==
    LET groups == {db[i].status : i \in 1..Len(db)}
        pnl(st) == sum_pnl(db, st, Len(db))
        add(st) == IF st \in groups /\ pnl(st) # None /\ pnl(st)[1] # 0
                   THEN pnl(st)[1] ELSE 0
    IN  [k \in StatsKeys \cup groups \cup {"total_pnl"} |->
            IF k = "total_pnl"
            THEN add("pending") + add("active") + add("closed_tp")
                    + add("closed_sl") + add("closed_manual") + add("failed")
            ELSE Cardinality({i \in 1..Len(db) : db[i].status = k})]

GetPositionStats ==
    /\ db_open
    /\ last' = [op |-> "stats", result |-> get_position_stats(positions)]
    /\ UNCHANGED <<config, dex_instances, positions, ps, is_monitoring,
                   mon_pc, open_positions, hooks, db_open, detector_open, cur>>

NextStats ==
    \/ \E c \in Callers, s \in Signals : ProcessSignalCall(c, s)
    \/ \E c \in Callers : ProcessSignalCounted(c)
    \/ \E c \in Callers, chain \in EvmDetections :
            ProcessSignalDetected(c, chain)
    \/ StartMonitoring
    \/ MonitorRead
    \/ \E in \in CheckInputs : MonitorCheck(in)
    \/ GetPositionStats

SpecStats == Init /\ [][NextStats]_vars

\* The realized pnl_absolute summed over the closed rows among the first n.
RECURSIVE ClosedPnl(_)
ClosedPnl(n) ==
    IF n = 0 THEN 0
    ELSE ClosedPnl(n - 1)
            + (IF Closed(positions[n]) THEN positions[n].pnl_absolute[1]
               ELSE 0)

\* C26: get_position_stats returns, for each of pending, active, closed_tp
\* and closed_sl, the number of rows the table holds in that status (0 when
\* it holds none), and a total_pnl equal to the sum of pnl_absolute over the
\* closed rows.
C26_Stats ==
    [][(last'.op = "stats") =>
            /\ \A st \in StatsKeys :
                    /\ st \in DOMAIN last'.result
                    /\ last'.result[st] =
                        Cardinality({i \in Rows : positions[i].status = st})
            /\ last'.result["total_pnl"] = ClosedPnl(Len(positions))
            /\ positions' = positions]_vars

\* Statistics have just been taken of a table with a closed_tp and a
\* closed_sl row that both realized a non-zero amount.
C26_Witness ==
    /\ last.op = "stats"
    /\ last.result["closed_tp"] = 1
    /\ last.result["closed_sl"] = 1
    /\ last.result["pending"] = 0
    /\ last.result["total_pnl"] = 2

----
\* Signal(...) constructed from arbitrary prices, and process_signal.

\* Prices a caller can pass to Signal(...): negative, zero and three levels.
RawPrices == {-1, 0, 1, 2, 3}

RawSignals ==
    [direction : TradeDirection, contract_address : {AddrSolana},
     entry_price : RawPrices, take_profit : RawPrices, stop_loss : RawPrices]

\* Signal(**raw): __post_init__ raises ValueError or the object is built.
ConstructSignal(raw) ==
    /\ CanCall
    /\ last' = [op |-> "signal", raw |-> raw,
                error |-> IF ValidSignal(raw) THEN None
                          ELSE Some("ValueError")]
    /\ UNCHANGED <<config, dex_instances, positions, ps, is_monitoring,
                   mon_pc, open_positions, hooks, db_open, detector_open, cur>>

NextIntake ==
    \/ \E raw \in RawSignals : ConstructSignal(raw)
    \/ \E c \in Callers, s \in Signals : ProcessSignalCall(c, s)
    \/ \E c \in Callers : ProcessSignalCounted(c)
    \/ \E c \in Callers, chain \in EvmDetections :
            ProcessSignalDetected(c, chain)

SpecIntake == Init /\ [][NextIntake]_vars

\* C25: Signal(...) raises ValueError when the entry, take-profit or
\* stop-loss price is not strictly positive, and when the direction is LONG
\* and take-profit > entry > stop-loss does not hold; a position that
\* process_signal creates from a LONG signal has
\* take_profit_price > target_entry_price > stop_loss_price > 0.
C25_SignalValidation ==
    [][/\ (last'.op = "signal") =>
            LET raw == last'.raw
            IN  /\ (raw.entry_price <= 0 \/ raw.take_profit <= 0
                    \/ raw.stop_loss <= 0) =>
                        last'.error = Some("ValueError")
                /\ (raw.direction = "long"
                    /\ ~(raw.take_profit > raw.entry_price
                         /\ raw.entry_price > raw.stop_loss)) =>
                        last'.error = Some("ValueError")
       /\ (last'.op = "return" /\ last'.ret # None
           /\ last'.signal.direction = "long") =>
            LET row == positions'[last'.ret[1].id]
            IN  /\ row.take_profit_price > row.target_entry_price
                /\ row.target_entry_price > row.stop_loss_price
                /\ row.stop_loss_price > 0]_vars

\* A LONG signal with positive prices and a take-profit below its entry
\* price has just been refused.
C25_Witness ==
    /\ last.op = "signal"
    /\ last.error = Some("ValueError")
    /\ last.raw.direction = "long"
    /\ last.raw.stop_loss > 0
    /\ last.raw.take_profit > last.raw.stop_loss
    /\ last.raw.take_profit < last.raw.entry_price

\* C23: when close() is over the monitoring task has stopped and every
\* registered backend, the chain detector and the Store connection are
\* closed, also when the close() of one backend raises.
C23_CloseReleasesAll ==
    [][(last'.op = "close") =>
            /\ ~LoopRunning'
            /\ ~is_monitoring'
            /\ \A c \in DOMAIN dex_instances' : dex_instances'[c].closed
            /\ ~detector_open'
            /\ ~db_open']_vars

\* C22: close() does not cut a position operation short once its swap has
\* started: the await the task is cancelled in is not the swap and does not
\* come after it, so a swap that was executed successfully is in the table
\* (the row has left the status it was checked in) when close() is over.
C22_CancelLeavesNoPartialState ==
    [][(last'.op = "close" /\ last'.cancelled_in # None) =>
            /\ last'.cancelled_in[1] # "execute_swap"
            /\ "execute_swap" \notin Range(last'.done)
            /\ Succeeded(last'.result) =>
                    positions'[last'.id].status # last'.status]_vars

\* C21: while a _check_position call is in progress the loop stands on its
\* position: the list of positions is not read again and no other position
\* is begun until the call is over; the loop moves to the next position only
\* when the call has made all its calls, a successful swap among them
\* having its transition in the table; the open positions are read again
\* only when the list of the iteration is used up; and the awaits of a call
\* complete one at a time.
C21_Serialized ==
    [][/\ (cur # None /\ last'.op \notin {"close", "start_monitoring"}) =>
            /\ mon_pc = "check"
            /\ \/ /\ cur' # None
                  /\ cur'[1].in = cur[1].in
                  /\ cur'[1].k = cur[1].k + 1
                  /\ open_positions' = open_positions
               \/ /\ cur' = None
                  /\ last'.op = "check"
                  /\ last'.id = Head(open_positions).id
       /\ (cur = None /\ cur' # None) =>
            /\ cur'[1].k = 0
            /\ open_positions' = open_positions
            /\ positions' = positions
       /\ (last'.op = "check") =>
            /\ cur' = None
            /\ last'.id = Head(open_positions).id
            /\ \/ open_positions' = Tail(open_positions)
               \/ last'.raised /\ open_positions' = <<>>
            /\ Succeeded(last'.result) =>
                    /\ "commit" \in Range(last'.calls)
                    /\ positions'[last'.id].status # last'.status
       /\ (open_positions' # open_positions /\ open_positions' # <<>>
           /\ last'.op # "check") =>
            /\ open_positions = <<>>
            /\ cur = None
            /\ mon_pc = "top"]_vars

\* The entry of the first of two positions has just been committed and the
\* second position is next.
C21_Witness ==
    /\ JustChecked
    /\ cur = None
    /\ "commit" \in Range(last.calls)
    /\ positions[last.id].status = "active"
    /\ mon_pc = "check"
    /\ open_positions # <<>>
    /\ Head(open_positions).id # last.id

\* The row has been through the entry transition.
Entered(row) == row.status \in {"active", "closed_tp", "closed_sl"}

\* C31: in every state of the table a row has opened_at, entry_tx_hash and
\* a traded amount (entry_amount_quote > 0) exactly when its status is
\* active, closed_tp or closed_sl; a pending row has the column defaults in
\* all its entry fields.
C31_EntryAtomic ==
    \A i \in Rows :
        LET row == positions[i]
        IN  /\ Entered(row) <=> row.opened_at # None
            /\ Entered(row) <=> row.entry_tx_hash # None
            /\ Entered(row) <=> row.entry_amount_quote > 0
            /\ ~Entered(row) =>
                    /\ row.status = "pending"
                    /\ row.entry_amount_token = 0
                    /\ row.actual_entry_price = Zero

\* An entry has just been written next to a row that is still pending.
C31_Witness ==
    /\ JustChecked
    /\ last.status = "pending"
    /\ positions[last.id].status = "active"
    /\ positions[last.id].opened_at # None
    /\ positions[last.id].entry_tx_hash # None
    /\ \E j \in Rows : positions[j].status = "pending"

\* C32: a check of an active position holding tokens, at a price at or
\* above take-profit or at or below stop-loss, requests a quote from the
\* position's token into the quote asset for exactly the recorded
\* entry_amount_token; when the quote is answered the swap is executed on
\* that quote: a successful result carries its input amount, output amount
\* and price.
C32_ExitFullAmount ==
    [][(last'.op = "check" /\ last'.status = "active"
        /\ last'.price # None
        /\ positions[last'.id].entry_amount_token > 0
        /\ \/ last'.price[1] >= positions[last'.id].take_profit_price
           \/ last'.price[1] <= positions[last'.id].stop_loss_price) =>
        LET row == positions[last'.id]
        IN  /\ last'.quote_req # None
            /\ last'.quote_req[1].input_token = row.token_address
            /\ last'.quote_req[1].output_token = <<"USDT", row.chain>>
            /\ last'.quote_req[1].amount = row.entry_amount_token
            /\ last'.calls[2] = "get_quote"
            /\ (last'.quote # None =>
                    /\ last'.quote[1].input_amount = row.entry_amount_token
                    /\ last'.quote[1].input_token = row.token_address
                    /\ last'.result # None
                    /\ last'.calls[3] = "execute_swap")
            /\ (Succeeded(last'.result) =>
                    /\ last'.result[1].amount_in = row.entry_amount_token
                    /\ last'.result[1].amount_out =
                            last'.quote[1].output_amount
                    /\ last'.result[1].price = last'.quote[1].price)]_vars

\* The whole token amount of a position has just been sold at stop-loss.
C32_Witness ==
    /\ JustChecked
    /\ last.status = "active"
    /\ positions[last.id].status = "closed_sl"
    /\ last.quote_req # None
    /\ last.quote_req[1].amount = positions[last.id].entry_amount_token
    /\ last.result[1].amount_in = positions[last.id].entry_amount_token

\* The columns process_signal writes and the columns the entry writes.
CreatedFields(row) ==
    <<row.chain, row.token_address, row.quote_token, row.target_entry_price,
      row.take_profit_price, row.stop_loss_price, row.created_at>>

EntryFields(row) ==
    <<row.entry_amount_quote, row.entry_amount_token, row.actual_entry_price,
      row.opened_at, row.entry_tx_hash>>

\* C39: no step changes the chain, token_address, target_entry_price,
\* take_profit_price, stop_loss_price or created_at of an existing row; a
\* step that leaves a row's status as it was leaves the whole row as it
\* was; and a step that closes a row leaves its entry_amount_quote,
\* entry_amount_token, actual_entry_price, opened_at and entry_tx_hash as
\* they were.
C39_Frame ==
    [][\A i \in Rows :
        /\ CreatedFields(positions'[i]) = CreatedFields(positions[i])
        /\ (positions'[i].status = positions[i].status =>
                positions'[i] = positions[i])
        /\ (Closed(positions'[i]) =>
                EntryFields(positions'[i]) = EntryFields(positions[i]))
      ]_vars

\* A position holding tokens has just been closed and still records them.
C39_Witness ==
    /\ JustClosed
    /\ positions[last.id].entry_amount_token > 0
    /\ positions[last.id].entry_amount_quote > 0
    /\ positions[last.id].opened_at # None
    /\ positions[last.id].created_at # None

\* C40: the price of a successful swap result that bought tokens is the
\* amount paid divided by the amount received (quote asset per token), and
\* so is the actual_entry_price an entry records: price * tokens = quote
\* amount; a position with a recorded entry price above 0 that is closed
\* closed_tp records pnl_percent > 0 and one closed closed_sl records
\* pnl_percent < 0.
C40_EntryPriceUnit ==
    [][/\ (last'.op = "execute_swap" /\ last'.result.success
           /\ last'.result.amount_out > 0) =>
                last'.result.price.num * last'.result.amount_out
                    = last'.result.amount_in * last'.result.price.den
       /\ (last'.op = "check" /\ last'.status = "pending"
           /\ positions'[last'.id].status = "active"
           /\ positions'[last'.id].entry_amount_token > 0) =>
                LET row == positions'[last'.id]
                IN  row.actual_entry_price.num * row.entry_amount_token
                        = row.entry_amount_quote * row.actual_entry_price.den
       /\ (last'.op = "check" /\ last'.status = "active"
           /\ Closed(positions'[last'.id])
           /\ positions[last'.id].actual_entry_price.num > 0) =>
                LET row == positions'[last'.id]
                IN  /\ row.status = "closed_tp" =>
                            row.pnl_percent[1].num > 0
                    /\ row.status = "closed_sl" =>
                            row.pnl_percent[1].num < 0]_vars

----
\* The listener and the signal handler of the bot (src/tg_bot/listener.py,
\* src/main.py) next to the engine.

\* UserSettings.max_positions of an auto-trade user and the count of the
\* user's open positions that count_user_positions answers.
UserMaxPositions == 1..MaxRows

UserPositionCounts == 0..MaxRows

\* TradingBot._on_signal: the calls it makes for a signal and a user.  It
\* logs the signal, counts the user's positions and logs again; it holds no
\* PositionManager and calls nothing else.
on_signal(signal, pos_count, max_positions) ==
    IF pos_count >= max_positions
    THEN <<"log_signal", "count_user_positions">>
    ELSE <<"log_signal", "count_user_positions", "logger.info">>

\* TelethonListener._handle_signal for a message of the target group that
\* parses to the signal: SignalParser.parse answers None for a SHORT; the
\* handler is awaited for the auto-trade user.
HandleSignal(signal, pos_count, max_positions) ==
    /\ last' = [op |-> "handle_signal", signal |-> signal,
                pos_count |-> pos_count, max_positions |-> max_positions,
                calls |-> IF signal.direction = "short" THEN <<>>
                          ELSE on_signal(signal, pos_count, max_positions)]
    /\ UNCHANGED <<config, dex_instances, positions, ps, is_monitoring,
                   mon_pc, open_positions, hooks, db_open, detector_open,
                   cur>>

NextBot ==
    \/ \E s \in Signals, n \in UserPositionCounts, m \in UserMaxPositions :
            HandleSignal(s, n, m)
    \/ \E c \in Callers, s \in Signals : ProcessSignalCall(c, s)
    \/ \E c \in Callers : ProcessSignalCounted(c)
    \/ \E c \in Callers, chain \in EvmDetections :
            ProcessSignalDetected(c, chain)

SpecBot == Init /\ [][NextBot]_vars

\* C34: the handling of a valid LONG signal for an auto-trade user below
\* the user's maximum number of positions calls process_signal (a call of
\* it is started).
C34_SignalReachesEngine ==
    [][(last'.op = "handle_signal" /\ last'.signal.direction = "long"
        /\ last'.pos_count < last'.max_positions) =>
            /\ "process_signal" \in Range(last'.calls)
            /\ \E c \in Callers : ps'[c].pc # ps[c].pc]_vars

\* C35: an active position checked at a price at or above take-profit or at
\* or below stop-loss has its exit attempted (a quote is requested), and is
\* closed when the quote and the swap succeed; so no position becomes
\* active with an entry_amount_token of 0, which every exit attempt
\* refuses.
C35_ActiveCanExit ==
    [][/\ (last'.op = "check" /\ last'.status = "pending"
           /\ positions'[last'.id].status = "active") =>
                positions'[last'.id].entry_amount_token > 0
       /\ (last'.op = "check" /\ last'.status = "active"
           /\ last'.price # None
           /\ \/ last'.price[1] >= positions[last'.id].take_profit_price
              \/ last'.price[1] <= positions[last'.id].stop_loss_price) =>
                /\ last'.quote_req # None
                /\ Succeeded(last'.result) =>
                        Closed(positions'[last'.id])]_vars

\* C36: a position gets at most one successful entry swap and one
\* successful exit swap: a swap is only executed for the status the row has
\* in the table, and every step in which a swap succeeded for a position
\* (also one whose Store write then raised) leaves the row out of the
\* status it was checked in, so the swap is not executed again.
C36_SwapOnce ==
    [][/\ (last'.op = "check" /\ "execute_swap" \in Range(last'.calls)) =>
                last'.status = positions[last'.id].status
       /\ (last'.op = "check" /\ Succeeded(last'.result)) =>
                positions'[last'.id].status # last'.status
       /\ (last'.op = "loop_error" /\ last'.at = "write"
           /\ "execute_swap" \in Range(last'.calls)) =>
                positions'[Head(open_positions).id].status
                    # Head(open_positions).status]_vars

\* C37: an exception raised while a position is checked (here by a
\* position-opened or position-closed callback) stays with that position:
\* the loop goes on with the remaining positions of the iteration.
C37_ExceptionContained ==
    [][(last'.op = "check" /\ last'.raised) =>
            /\ open_positions' = Tail(open_positions)
            /\ mon_pc' = IF Tail(open_positions) = <<>> THEN "top"
                         ELSE "check"]_vars

\* ---------------------------------------------------------------------
\* C38: at most one monitoring task.  A call of start_monitoring made
\* while monitoring is on changes nothing: the running loop keeps its
\* place and its list, no row and no operation in flight is touched.  A
\* call that does create a task is made when no loop is running, and a
\* running loop always has the flag set, so the next call is refused.
C38_SingleMonitor ==
    [][/\ (LoopRunning => is_monitoring)
       /\ (last'.op = "start_monitoring" /\ last'.was_monitoring) =>
               UNCHANGED <<mon_pc, open_positions, positions, cur,
                           is_monitoring>>
       /\ (last'.op = "start_monitoring" /\ ~last'.was_monitoring) =>
               /\ ~LoopRunning
               /\ mon_pc' = "top"
               /\ is_monitoring']_vars

\* start_monitoring was called while the loop stood inside an iteration
\* with an operation in flight.
C38_Witness ==
    /\ last.op = "start_monitoring"
    /\ last.was_monitoring
    /\ mon_pc = "check"
    /\ cur # None

----
\* The monitoring loop of a restarted engine with a Store that answers and
\* no close(): nothing but the replies of the price feed, the balance, the
\* quote and the swap decides what a check does.
NextRetry ==
    \/ StartMonitoring
    \/ MonitorRead
    \/ \E in \in CheckInputs : MonitorCheck(in)

\* The event loop runs the monitoring task whenever it is ready.
RetryFair ==
    /\ WF_vars(MonitorRead)
    /\ WF_vars(\E in \in CheckInputs : MonitorCheck(in))

SpecRetry == InitCalls /\ [][NextRetry]_vars /\ RetryFair

\* The condition of _check_position under which pos_data is entered or
\* exited at current_price.
ConditionHolds(pos_data, current_price) ==
    IF pos_data.status = "pending"
    THEN entry_hit(current_price, pos_data.target_entry_price)
    ELSE exit_hit(current_price, pos_data.take_profit_price,
                  pos_data.stop_loss_price) # ""

\* C33: failures are retried without limit and without escalation.  Every
\* check of a position whose condition holds at the price obtained makes
\* the attempt (an entry reads the balance, a positive amount gets a quote
\* requested, a quote gets the swap executed), whatever happened before;
\* an attempt without a successful swap leaves the table as it found it,
\* with the position in the next list of open positions; an attempt whose
\* swap succeeds makes the position active or closed in that step; and
\* while monitoring runs every open position is checked again.
C33_Retried ==
    /\ [][(last'.op = "check" /\ last'.price # None
           /\ ConditionHolds(Head(open_positions), last'.price[1])) =>
            LET pos_data == Head(open_positions)
                i == last'.id
            IN  /\ pos_data.id = i
                /\ (last'.status = "pending" => last'.balance # None)
                /\ (last'.status = "pending"
                    /\ trade_amount_of(last'.balance[1]) > 0
                        => last'.quote_req # None)
                /\ (last'.status = "active"
                    /\ exit_token_amount(pos_data) > 0
                        => last'.quote_req # None)
                /\ (last'.quote # None => last'.result # None)
                /\ (Succeeded(last'.result) =>
                        positions'[i].status =
                            IF last'.status = "pending" THEN "active"
                            ELSE ExitStatus(exit_hit(last'.price[1],
                                        pos_data.take_profit_price,
                                        pos_data.stop_loss_price)))
                /\ (~Succeeded(last'.result) =>
                        /\ positions' = positions
                        /\ \E k \in 1..Len(get_open_positions(positions')) :
                              get_open_positions(positions')[k] = pos_data)
          ]_vars
    /\ \A i \in 1..MaxRows :
            (is_monitoring /\ i <= Len(positions) /\ Open(positions[i]))
                ~> (last.op = "check" /\ last.id = i)

\* The entry of a pending position has just failed at the quote; the
\* iteration is over and the position is still pending.
C33_Witness ==
    /\ JustChecked
    /\ last.status = "pending"
    /\ last.quote_req # None
    /\ last.quote = None
    /\ mon_pc = "top"
    /\ positions[last.id].status = "pending"

====
